---- MODULE Spec2Model ----
(***************************************************************************)
(* Model of the data-quality checker: the DataQualityChecker engine        *)
(* (quality_checker.py and its near-duplicate data-quality-checker.py),    *)
(* the schema loader load_data_dictionary, the orchestrator main() and the *)
(* dashboard's missing-value callback.                                     *)
(*                                                                         *)
(* A cell, a schema bound and a percentage are tagged records so that      *)
(* values of different kinds stay comparable.  A float is a fixed-point    *)
(* number with Digits fractional digits (unit 1/Scale).                    *)
(***************************************************************************)
EXTENDS Integers, Sequences, FiniteSets, TLC

\* ------------------------------------------------------------------ bounds
MaxRows == 3
MaxRowsTypes == 1
MaxRowsRanges == 2
MaxRowsEngine == 2
MaxRowsRun == 1
MaxSchemaLen == 2
MaxCalls == 2
Digits == 5

RECURSIVE Pow10(_)
Pow10(n) == IF n = 0 THEN 1 ELSE 10 * Pow10(n - 1)

Scale == Pow10(Digits)

\* ------------------------------------------------------------ option values
None == <<>>
Some(x) == <<x>>
IsSome(o) == Len(o) = 1
Get(o) == o[1]

\* ------------------------------------------------------------------- cells
Null == [k |-> "null", n |-> 0, s |-> ""]
Num(n) == [k |-> "num", n |-> n, s |-> ""]
Str(s) == [k |-> "str", n |-> 0, s |-> s]
Bool(b) == [k |-> "bool", n |-> IF b THEN 1 ELSE 0, s |-> ""]
Ts(n) == [k |-> "ts", n |-> n, s |-> ""]

\* pd.isnull / pd.notnull on a scalar
isnull(c) == c.k = "null"
notnull(c) == ~isnull(c)

\* the cells a column of each dtype can hold: int64 and bool columns hold
\* no null (pandas stores such a column as float64 / object instead)
CellsOf(dtype) ==
  CASE dtype = "int64" -> {Num(0), Num(1), Num(2)}
    [] dtype = "float64" -> {Null, Num(0), Num(1), Num(2)}
    [] dtype = "object" -> {Null, Str("x")}
    [] dtype = "bool" -> {Bool(FALSE), Bool(TRUE)}
    [] OTHER -> {Null, Ts(0)}

\* ---------------------------------------------------------------- datasets
\* A DataFrame: ordered column names, a dtype per column, rows of cells.
DataFrame(ta, ca, tb, cb) ==
  [columns |-> <<"a", "b">>,
   dtype |-> [a |-> ta, b |-> tb],
   rows |-> [i \in DOMAIN ca |-> [a |-> ca[i], b |-> cb[i]]]]

DataFrames(typesA, typesB, maxRows) ==
  UNION {{DataFrame(ta, ca, tb, cb) :
            ca \in [1..n -> CellsOf(ta)], cb \in [1..n -> CellsOf(tb)]} :
         <<ta, tb, n>> \in typesA \X typesB \X (0..maxRows)}

HasColumn(df, col) == \E i \in DOMAIN df.columns : df.columns[i] = col

\* ----------------------------------------------------------------- schemas
NaN == [k |-> "null", n |-> 0, s |-> ""]

SchemaRow(col, type, lo, hi) ==
  [column_name |-> col, data_type |-> type, min_value |-> lo, max_value |-> hi]

RECURSIVE SeqsUpTo(_, _)
SeqsUpTo(S, n) ==
  IF n = 0 THEN {<<>>}
  ELSE LET shorter == SeqsUpTo(S, n - 1)
       IN shorter \cup {Append(s, e) : s \in {t \in shorter : Len(t) = n - 1}, e \in S}

\* ------------------------------------------------------------------ floats
\* A float result: NaN, or a fixed-point value fp in units of 1/Scale.
FloatNaN == [nan |-> TRUE, fp |-> 0]
Float(fp) == [nan |-> FALSE, fp |-> fp]

\* nearest fixed-point quotient of num/den (den > 0, num >= 0)
RoundDiv(num, den) == (2 * num + den) \div (2 * den)

\* ----------------------------------------------------------------- reports
\* What a check returns: a pandas Series, a DataFrame or a dict, as the
\* ordered sequence of its items.
Report(type, items) == [type |-> type, items |-> items]

\* report.empty; a dict has no such attribute
HasEmptyAttr(report) == report.type \in {"Series", "DataFrame"}
IsEmpty(report) == Len(report.items) = 0

\* One print() call: the message, whether it carries the warning prefix,
\* and the number of report items rendered under it.
Line(warn, msg, n) == [warn |-> warn, msg |-> msg, n |-> n]

\* The outcome of a call: the exception it raised ("" for none), the value
\* it returned (None when it raised) and the lines it printed.
Returned(report, lines) == [exc |-> "", ret |-> Some(report), lines |-> lines]
Raised(exc, lines) == [exc |-> exc, ret |-> None, lines |-> lines]

\* DataQualityChecker._generate_report
generate_report(report, message) ==
  IF ~HasEmptyAttr(report) THEN [exc |-> "AttributeError", lines |-> <<>>]
  ELSE IF IsEmpty(report) THEN [exc |-> "", lines |-> <<Line(FALSE, message, 0)>>]
  ELSE [exc |-> "", lines |-> <<Line(TRUE, message, Len(report.items))>>]

\* ------------------------------------------------------ check_missing_data
NullCount(df, col) == Cardinality({i \in DOMAIN df.rows : isnull(df.rows[i][col])})

\* df.isnull().mean() for one column: NaN over zero rows
IsnullMean(df, col) ==
  IF Len(df.rows) = 0 THEN FloatNaN
  ELSE Float(RoundDiv(NullCount(df, col) * Scale, Len(df.rows)))

Times100(x) == IF x.nan THEN FloatNaN ELSE Float(x.fp * 100)

\* missing_summary = self.df.isnull().mean() * 100
MissingSummary(df) ==
  [i \in DOMAIN df.columns |->
     [col |-> df.columns[i], pct |-> Times100(IsnullMean(df, df.columns[i]))]]

\* mutant: the filter keeps every column (>= 0)
GreaterOrEqualZero(x) == ~x.nan /\ x.fp >= 0

\* missing_summary > 0 (false for NaN)
GreaterThanZero(x) == ~x.nan /\ x.fp > 0

RECURSIVE BooleanMask(_, _)
BooleanMask(items, mask) ==
  IF Len(items) = 0 THEN <<>>
  ELSE IF Head(mask) THEN <<Head(items)>> \o BooleanMask(Tail(items), Tail(mask))
  ELSE BooleanMask(Tail(items), Tail(mask))

\* the order sort_values(ascending=False) puts x before y
ComesBefore(x, y) == x.pct.fp > y.pct.fp

RECURSIVE InsertSorted(_, _)
InsertSorted(sorted, x) ==
  IF Len(sorted) = 0 THEN <<x>>
  ELSE IF ComesBefore(x, Head(sorted)) THEN <<x>> \o sorted
  ELSE <<Head(sorted)>> \o InsertSorted(Tail(sorted), x)

\* Series.sort_values(ascending=False); equal values keep their order
RECURSIVE SortValuesDescending(_)
SortValuesDescending(items) ==
  IF Len(items) = 0 THEN <<>>
  ELSE InsertSorted(SortValuesDescending(SubSeq(items, 1, Len(items) - 1)),
                    items[Len(items)])

MissingReport(df) ==
  LET missing_summary == MissingSummary(df)
      mask == [i \in DOMAIN missing_summary |-> GreaterThanZero(missing_summary[i].pct)]
  IN Report("Series", SortValuesDescending(BooleanMask(missing_summary, mask)))

CheckMissingData(df) ==
  LET missing_report == MissingReport(df)
      printed == generate_report(missing_report, "Missing Data Report (%)")
  IN Returned(missing_report, printed.lines)

\* ----------------------------------------- dashboard.update_missing_values
\* Series.round(2): round half to even at two decimals
Round2(x) ==
  IF x.nan THEN FloatNaN
  ELSE LET unit == Scale \div 100
           q == x.fp \div unit
           r == x.fp % unit
       IN Float(unit * (IF 2 * r > unit \/ (2 * r = unit /\ q % 2 = 1) THEN q + 1 ELSE q))

UpdateMissingValues(df) ==
  LET missing_report == MissingSummary(df)
      mask == [i \in DOMAIN missing_report |-> GreaterThanZero(missing_report[i].pct)]
      kept == BooleanMask(missing_report, mask)
  IN Report("Series", [i \in DOMAIN kept |-> [col |-> kept[i].col, pct |-> Round2(kept[i].pct)]])

\* -------------------------------------------------------- check_duplicates
\* mutant: duplicated(keep=False), every member of a repeated group is flagged
RECURSIVE DuplicatedKeepFalse(_, _, _)
DuplicatedKeepFalse(rows, i, seen) ==
  IF i > Len(rows) THEN <<>>
  ELSE <<\E j \in DOMAIN rows : j # i /\ rows[j] = rows[i]>>
         \o DuplicatedKeepFalse(rows, i + 1, seen)

\* DataFrame.duplicated(): one pass that flags a row already seen
RECURSIVE DuplicatedFrom(_, _, _)
DuplicatedFrom(rows, i, seen) ==
  IF i > Len(rows) THEN <<>>
  ELSE <<rows[i] \in seen>> \o DuplicatedFrom(rows, i + 1, seen \cup {rows[i]})

Duplicated(df) == DuplicatedFrom(df.rows, 1, {})

\* the rows of df with their original index
IndexedRows(df) == [i \in DOMAIN df.rows |-> [index |-> i, row |-> df.rows[i]]]

Min(x, y) == IF x < y THEN x ELSE y

CheckDuplicates(df) ==
  LET duplicates == Report("DataFrame", BooleanMask(IndexedRows(df), Duplicated(df)))
      num_duplicates == Len(duplicates.items)
  IN IF num_duplicates > 0
     THEN Returned(duplicates,
                   <<Line(TRUE, "Total Duplicate Rows", num_duplicates),
                     Line(FALSE, "head", Min(num_duplicates, 5))>>)
     ELSE Returned(duplicates, generate_report(duplicates, "No Duplicate Rows Found.").lines)

\* ----------------------------------------------------- validate_data_types
\* pd.api.types.is_datetime64_any_dtype
is_datetime64_any_dtype(dtype) == dtype \in {"datetime64[ns]", "datetime64[ns, UTC]"}

HasKey(items, key) == \E i \in DOMAIN items : items[i].key = key

\* mutant: dict.setdefault, a key already present keeps its first value
DictSetKeepFirst(items, key, value) ==
  IF HasKey(items, key) THEN items
  ELSE Append(items, [key |-> key, value |-> value])

\* d[key] = value on a Python dict: a new key goes last, an old key keeps
\* its place and takes the new value
DictSet(items, key, value) ==
  IF HasKey(items, key)
  THEN [i \in DOMAIN items |->
          IF items[i].key = key THEN [key |-> key, value |-> value] ELSE items[i]]
  ELSE Append(items, [key |-> key, value |-> value])

\* mutant: no special case for "datetime", the tags are compared literally
TypeMismatchLiteral(expected_type, actual_type) == actual_type # expected_type

\* the comparison of one schema row's expected type with the column's dtype
TypeMismatch(expected_type, actual_type) ==
  IF expected_type = "datetime"
  THEN ~is_datetime64_any_dtype(actual_type)
  ELSE actual_type # expected_type

\* mutant: no `col in self.df.columns` test, an absent column is recorded
TypesStepUnguarded(df, row, incorrect_types) ==
  LET col == row.column_name
      actual_type == IF HasColumn(df, col) THEN df.dtype[col] ELSE "None"
  IN IF TypeMismatch(row.data_type, actual_type)
     THEN DictSet(incorrect_types, col, [expected |-> row.data_type, actual |-> actual_type])
     ELSE incorrect_types

\* the loop body of validate_data_types for schema row `row`
TypesStep(df, row, incorrect_types) ==
  LET col == row.column_name
      expected_type == row.data_type
  IN IF HasColumn(df, col)
     THEN LET actual_type == df.dtype[col]
          IN IF TypeMismatch(expected_type, actual_type)
             THEN DictSet(incorrect_types, col,
                          [expected |-> expected_type, actual |-> actual_type])
             ELSE incorrect_types
     ELSE incorrect_types

RECURSIVE TypesLoop(_, _, _, _)
TypesLoop(df, data_dict, i, incorrect_types) ==
  IF i > Len(data_dict) THEN incorrect_types
  ELSE TypesLoop(df, data_dict, i + 1, TypesStep(df, data_dict[i], incorrect_types))

ItemLines(items, msg) == [i \in DOMAIN items |-> Line(FALSE, msg, 1)]

\* the two implementations differ in how they render an empty dict
ValidateDataTypes(impl, df, data_dict) ==
  LET incorrect_types == Report("dict", TypesLoop(df, data_dict, 1, <<>>))
  IN IF ~IsEmpty(incorrect_types)
     THEN Returned(incorrect_types,
                   <<Line(TRUE, "Data Type Mismatches Found:", 0)>>
                     \o ItemLines(incorrect_types.items, "Expected, got"))
     ELSE IF impl = "quality_checker"
     THEN Returned(incorrect_types, <<Line(FALSE, "All column data types are correct.", 0)>>)
     ELSE LET printed == generate_report(incorrect_types, "All column data types are correct.")
          IN IF printed.exc # "" THEN Raised(printed.exc, printed.lines)
             ELSE Returned(incorrect_types, printed.lines)

\* ------------------------------------------------- validate_numeric_ranges
\* Python's ordering of the strings the model uses
StrOrder == <<"0", "1", "2", "abc", "x">>
StrRank(s) == CHOOSE i \in DOMAIN StrOrder : StrOrder[i] = s

HasNonNull(df, col) == \E i \in DOMAIN df.rows : notnull(df.rows[i][col])

\* self.df[col] < bound (or >) raises TypeError: a datetime column against a
\* number, text cells against a number, numeric or boolean cells against
\* text.  Null cells are skipped by the elementwise comparison.
ComparisonRaises(df, col, bound) ==
  LET dtype == df.dtype[col]
  IN IF is_datetime64_any_dtype(dtype) THEN TRUE
     ELSE IF dtype = "object" THEN bound.k = "num" /\ HasNonNull(df, col)
     ELSE bound.k = "str" /\ HasNonNull(df, col)

\* elementwise value < bound and value > bound; a null cell gives False,
\* a boolean cell compares as 0 / 1
LessThan(cell, bound) ==
  /\ notnull(cell)
  /\ IF bound.k = "str" THEN StrRank(cell.s) < StrRank(bound.s) ELSE cell.n < bound.n

GreaterThan(cell, bound) ==
  /\ notnull(cell)
  /\ IF bound.k = "str" THEN StrRank(cell.s) > StrRank(bound.s) ELSE cell.n > bound.n

\* the rows selected by (df[col] < min_value) | (df[col] > max_value)
InvalidValues(df, col, min_value, max_value) ==
  {i \in DOMAIN df.rows :
     LessThan(df.rows[i][col], min_value) \/ GreaterThan(df.rows[i][col], max_value)}

\* whether schema row `row` gets range-checked at all
RangeGuard(df, row) ==
  /\ notnull(row.min_value)
  /\ notnull(row.max_value)
  /\ HasColumn(df, row.column_name)

\* the loop of validate_numeric_ranges; acc.exc is set by a raising comparison
RECURSIVE RangesLoop(_, _, _, _)
RangesLoop(df, data_dict, i, out_of_range_values) ==
  IF i > Len(data_dict) THEN [exc |-> "", items |-> out_of_range_values]
  ELSE LET row == data_dict[i]
           column_name == row.column_name
       IN IF RangeGuard(df, row)
          THEN IF \/ ComparisonRaises(df, column_name, row.min_value)
                  \/ ComparisonRaises(df, column_name, row.max_value)
               THEN [exc |-> "TypeError", items |-> <<>>]
               ELSE LET num_invalid_values ==
                          Cardinality(InvalidValues(df, column_name, row.min_value, row.max_value))
                    IN RangesLoop(df, data_dict, i + 1,
                                  IF num_invalid_values > 0
                                  THEN DictSet(out_of_range_values, column_name, num_invalid_values)
                                  ELSE out_of_range_values)
          ELSE RangesLoop(df, data_dict, i + 1, out_of_range_values)

ValidateNumericRanges(impl, df, data_dict) ==
  LET loop == RangesLoop(df, data_dict, 1, <<>>)
      out_of_range_values == Report("dict", loop.items)
  IN IF loop.exc # "" THEN Raised(loop.exc, <<>>)
     ELSE IF impl = "quality_checker"
     THEN IF ~IsEmpty(out_of_range_values)
          THEN Returned(out_of_range_values,
                        <<Line(TRUE, "Columns with out-of-range numeric values:", 0)>>
                          \o ItemLines(out_of_range_values.items, "out-of-range values"))
          ELSE Returned(out_of_range_values,
                        <<Line(FALSE, "All numeric values within specified ranges.", 0)>>)
     ELSE LET printed ==
                IF ~IsEmpty(out_of_range_values)
                THEN generate_report(Report("Series", out_of_range_values.items),
                                     "Columns with out-of-range numeric values:")
                ELSE generate_report(out_of_range_values,
                                     "All numeric values within specified ranges.")
          IN IF printed.exc # "" THEN Raised(printed.exc, printed.lines)
             ELSE Returned(out_of_range_values, printed.lines)

\* ---------------------------------------------------- load_data_dictionary
\* The schema file: rows of text fields.
NumericText == {"0", "1", "2"}
ParseNumber(t) == CHOOSE n \in 0..2 : StrOrder[n + 1] = t

\* pd.read_csv type inference over one column of the file: a column of
\* numbers and blanks becomes float64, any other column keeps its text
ReadCsvColumn(texts) ==
  IF \A i \in DOMAIN texts : texts[i] = "" \/ texts[i] \in NumericText
  THEN [i \in DOMAIN texts |-> IF texts[i] = "" THEN NaN ELSE Num(ParseNumber(texts[i]))]
  ELSE [i \in DOMAIN texts |-> IF texts[i] = "" THEN NaN ELSE Str(texts[i])]

ReadCsv(file) ==
  LET lo == ReadCsvColumn([i \in DOMAIN file |-> file[i].min_value])
      hi == ReadCsvColumn([i \in DOMAIN file |-> file[i].max_value])
  IN [i \in DOMAIN file |->
        SchemaRow(file[i].column_name, file[i].data_type, lo[i], hi[i])]

\* pd.to_numeric(errors="coerce") on one value
ToNumericCoerce(v) ==
  IF v.k = "str"
  THEN IF v.s \in NumericText THEN Num(ParseNumber(v.s)) ELSE NaN
  ELSE v

\* load_data_dictionary once the file is known to exist: quality_checker.py
\* coerces both bounds, data-quality-checker.py returns the table as read
LoadDataDictionary(impl, file) ==
  LET data_dict_df == ReadCsv(file)
  IN IF impl = "quality_checker"
     THEN [i \in DOMAIN data_dict_df |->
             SchemaRow(data_dict_df[i].column_name, data_dict_df[i].data_type,
                       ToNumericCoerce(data_dict_df[i].min_value),
                       ToNumericCoerce(data_dict_df[i].max_value))]
     ELSE data_dict_df

\* =========================================================== state machine
VARIABLES
  impl,          \* which copy of the checker runs
  pc,            \* position of main(), or "engine" for direct use of the class
  argv_ok,       \* len(sys.argv) == 2
  dataset_file,  \* the dataset on disk: None when missing, else its table
  schema_file,   \* the data dictionary on disk: None when missing, else its rows
  df,            \* the loaded dataset (self.df), None before it is read
  data_dict,     \* the loaded schema (self.data_dict), None before it is loaded
  result,        \* per check: the outcome of its latest invocation, None before
  calls,         \* per check: how many times it has been invoked
  budget,        \* how many times the caller invokes each check
  out,           \* what main() itself printed
  exit_code,     \* the process exit status, None while running
  missing_values \* the dashboard's missing-values panel, None before the callback

vars == <<impl, pc, argv_ok, dataset_file, schema_file, df, data_dict, result,
          calls, budget, out, exit_code, missing_values>>

Impls == {"quality_checker", "data-quality-checker"}

Checks == {"check_missing_data", "check_duplicates",
           "validate_data_types", "validate_numeric_ranges"}

\* ------------------------------------------------------------------ inputs
\* main() reads the dataset with pd.read_csv and no date parsing, which
\* never yields a datetime column
RunDatasets == DataFrames({"int64", "float64"}, {"object", "bool"}, MaxRowsRun)

FileRow(col, type, lo, hi) ==
  [column_name |-> col, data_type |-> type, min_value |-> lo, max_value |-> hi]

FileRows ==
  {FileRow(col, f[1], f[2], f[3]) :
     col \in {"a", "b", "z"},
     f \in {<<"float64", "1", "1">>, <<"object", "", "">>, <<"float64", "abc", "1">>}}

SchemaFiles == SeqsUpTo(FileRows, MaxSchemaLen)

DataDatasets == DataFrames({"float64"}, {"object", "datetime64[ns]"}, MaxRows)

TypesDatasets ==
  DataFrames({"int64", "float64", "datetime64[ns]"},
             {"object", "bool", "datetime64[ns, UTC]"}, MaxRowsTypes)

TypesSchemas ==
  SeqsUpTo({SchemaRow(col, type, NaN, NaN) :
              col \in {"a", "b", "z"},
              type \in {"datetime", "float64", "object", "datetime64[ns]"}},
           MaxSchemaLen)

RangesDatasets ==
  DataFrames({"float64"}, {"object", "bool", "datetime64[ns]"}, MaxRowsRanges)

RangesSchemas ==
  SeqsUpTo({SchemaRow(col, "float64", lo, hi) :
              col \in {"a", "b"}, lo \in {NaN, Num(1)}, hi \in {NaN, Num(1)}},
           MaxSchemaLen)

\* schemas for the two schema-driven checks together: present and absent
\* columns, matching and mismatching types, one or both bounds
SchemaSchemas ==
  SeqsUpTo({SchemaRow(col, f[1], f[2], Num(1)) :
              col \in {"a", "b", "z"},
              f \in {<<"int64", Num(1)>>, <<"datetime", NaN>>}},
           MaxSchemaLen)

EngineDatasets ==
  {d \in DataFrames({"float64"}, {"object"}, MaxRowsEngine) :
     \A i \in DOMAIN d.rows : d.rows[i]["a"] \in {Null, Num(0)}}

EngineSchemas ==
  SeqsUpTo({SchemaRow("a", "int64", Num(1), Num(1)),
            SchemaRow("b", "datetime", Num(1), Num(1)),
            SchemaRow("z", "float64", NaN, Num(1))},
           MaxSchemaLen)

\* ------------------------------------------------------------------- inits
NoCalls ==
  /\ result = [c \in Checks |-> None]
  /\ calls = [c \in Checks |-> 0]
  /\ out = <<>>
  /\ exit_code = None
  /\ missing_values = None

\* the process starts: nothing loaded yet
Init ==
  /\ impl \in Impls
  /\ pc = "main"
  /\ argv_ok \in BOOLEAN
  /\ dataset_file \in {None} \cup {Some(d) : d \in RunDatasets}
  /\ schema_file \in {None} \cup {Some(f) : f \in SchemaFiles}
  /\ df = None
  /\ data_dict = None
  /\ budget = 1
  /\ NoCalls

\* a checker object constructed directly on a dataset and a schema
Constructed(datasets, schemas, times) ==
  /\ impl \in Impls
  /\ pc = "engine"
  /\ argv_ok = TRUE
  /\ dataset_file = None
  /\ schema_file = None
  /\ df \in {Some(d) : d \in datasets}
  /\ data_dict \in {Some(dd) : dd \in schemas}
  /\ budget = times
  /\ NoCalls

InitData == Constructed(DataDatasets, {<<>>}, 1)
InitTypes == Constructed(TypesDatasets, TypesSchemas, 1) /\ impl = "quality_checker"
InitRanges == Constructed(RangesDatasets, RangesSchemas, 1)
InitSchema == Constructed(TypesDatasets, SchemaSchemas, 1)
InitEngine == Constructed(EngineDatasets, EngineSchemas, MaxCalls)

\* ----------------------------------------------------------------- actions
Exit1(message) ==
  /\ out' = Append(out, message)
  /\ exit_code' = Some(1)
  /\ pc' = "exit"

\* main: the argument count check
main_usage ==
  /\ pc = "main"
  /\ IF ~argv_ok
     THEN Exit1("Usage")
     ELSE pc' = "read_dataset" /\ UNCHANGED <<out, exit_code>>
  /\ UNCHANGED <<impl, argv_ok, dataset_file, schema_file, df, data_dict,
                 result, calls, budget, missing_values>>

\* main: the dataset existence check and pd.read_csv
main_read_dataset ==
  /\ pc = "read_dataset"
  /\ IF dataset_file = None
     THEN Exit1("File not found.") /\ UNCHANGED df
     ELSE /\ df' = dataset_file
          /\ pc' = "load_data_dictionary"
          /\ UNCHANGED <<out, exit_code>>
  /\ UNCHANGED <<impl, argv_ok, dataset_file, schema_file, data_dict,
                 result, calls, budget, missing_values>>

\* mutant: no existence check, a missing file loads as an empty schema
load_data_dictionary_unchecked ==
  /\ pc = "load_data_dictionary"
  /\ data_dict' = IF schema_file = None THEN Some(<<>>)
                  ELSE Some(LoadDataDictionary(impl, Get(schema_file)))
  /\ pc' = "construct"
  /\ UNCHANGED <<impl, argv_ok, dataset_file, schema_file, df,
                 result, calls, budget, out, exit_code, missing_values>>

\* load_data_dictionary, as main calls it
load_data_dictionary ==
  /\ pc = "load_data_dictionary"
  /\ IF schema_file = None
     THEN Exit1("Data dictionary file not found!") /\ UNCHANGED data_dict
     ELSE /\ data_dict' = Some(LoadDataDictionary(impl, Get(schema_file)))
          /\ pc' = "construct"
          /\ UNCHANGED <<out, exit_code>>
  /\ UNCHANGED <<impl, argv_ok, dataset_file, schema_file, df,
                 result, calls, budget, missing_values>>

\* main: DataQualityChecker(df, data_dict_df) and the results header
main_construct ==
  /\ pc = "construct"
  /\ out' = Append(out, "--- Data Quality Check Results ---")
  /\ pc' = "check_missing_data"
  /\ UNCHANGED <<impl, argv_ok, dataset_file, schema_file, df, data_dict,
                 result, calls, budget, exit_code, missing_values>>

\* Check c may be invoked: it is main's next call, or a direct caller has
\* invocations left.
CanInvoke(c) == IF pc = "engine" THEN calls[c] < budget ELSE pc = c

\* The effect of one invocation of check c with outcome o.  Under main an
\* exception is uncaught and ends the process; a direct caller keeps the
\* object.  No check assigns self.df or self.data_dict.
Invoked(c, o, next) ==
  /\ result' = [result EXCEPT ![c] = Some(o)]
  /\ calls' = [calls EXCEPT ![c] = @ + 1]
  /\ pc' = IF pc = "engine" THEN "engine" ELSE IF o.exc # "" THEN "raised" ELSE next
  /\ exit_code' = IF pc = "engine" THEN exit_code
                  ELSE IF o.exc # "" THEN Some(1)
                  ELSE IF next = "done" THEN Some(0) ELSE exit_code
  /\ UNCHANGED <<impl, argv_ok, dataset_file, schema_file, budget, out, missing_values>>

check_missing_data ==
  /\ CanInvoke("check_missing_data")
  /\ Invoked("check_missing_data", CheckMissingData(Get(df)), "check_duplicates")
  /\ UNCHANGED <<df, data_dict>>

\* mutant: the check drops the duplicate rows from self.df as it reports them
check_duplicates_inplace ==
  /\ CanInvoke("check_duplicates")
  /\ Invoked("check_duplicates", CheckDuplicates(Get(df)), "validate_data_types")
  /\ df' = Some([Get(df) EXCEPT !.rows =
                   BooleanMask(Get(df).rows,
                               [i \in DOMAIN Get(df).rows |-> ~Duplicated(Get(df))[i]])])
  /\ UNCHANGED data_dict

check_duplicates ==
  /\ CanInvoke("check_duplicates")
  /\ Invoked("check_duplicates", CheckDuplicates(Get(df)), "validate_data_types")
  /\ UNCHANGED <<df, data_dict>>

validate_data_types ==
  /\ CanInvoke("validate_data_types")
  /\ Invoked("validate_data_types", ValidateDataTypes(impl, Get(df), Get(data_dict)),
             "validate_numeric_ranges")
  /\ UNCHANGED <<df, data_dict>>

validate_numeric_ranges ==
  /\ CanInvoke("validate_numeric_ranges")
  /\ Invoked("validate_numeric_ranges",
             ValidateNumericRanges(impl, Get(df), Get(data_dict)), "done")
  /\ UNCHANGED <<df, data_dict>>

\* dashboard.update_missing_values over the same dataset
update_missing_values ==
  /\ pc = "engine"
  /\ missing_values = None
  /\ missing_values' = Some(UpdateMissingValues(Get(df)))
  /\ UNCHANGED <<impl, pc, argv_ok, dataset_file, schema_file, df, data_dict,
                 result, calls, budget, out, exit_code>>

\* ---------------------------------------------------------- specifications
\* a run of main()
Next ==
  \/ main_usage
  \/ main_read_dataset
  \/ load_data_dictionary
  \/ main_construct
  \/ check_missing_data
  \/ check_duplicates
  \/ validate_data_types
  \/ validate_numeric_ranges

Spec == Init /\ [][Next]_vars

\* the two checks that read only the dataset, and the dashboard panel
NextData == check_missing_data \/ check_duplicates \/ update_missing_values
SpecData == InitData /\ [][NextData]_vars

\* validate_data_types over datasets of every dtype
NextTypes == validate_data_types
SpecTypes == InitTypes /\ [][NextTypes]_vars

\* validate_numeric_ranges over numeric and non-numeric columns
NextRanges == validate_numeric_ranges
SpecRanges == InitRanges /\ [][NextRanges]_vars

\* the two checks that read the schema, over present and absent columns
NextSchema == validate_data_types \/ validate_numeric_ranges
SpecSchema == InitSchema /\ [][NextSchema]_vars

\* the four checks, each invoked up to MaxCalls times in any order
NextEngine ==
  \/ check_missing_data
  \/ check_duplicates
  \/ validate_data_types
  \/ validate_numeric_ranges
SpecEngine == InitEngine /\ [][NextEngine]_vars

\* ================================================================== claims
Ran(c) == IsSome(result[c])
Outcome(c) == Get(result[c])
Items(c) == Get(Outcome(c).ret).items
TheDf == Get(df)
TheSchema == Get(data_dict)
Abs(x) == IF x < 0 THEN 0 - x ELSE x

UniqueNames(schema) ==
  \A i, j \in DOMAIN schema : i # j => schema[i].column_name # schema[j].column_name

Reports(items, key) == \E i \in DOMAIN items : items[i].key = key
ValueOf(items, key) == items[CHOOSE i \in DOMAIN items : items[i].key = key].value

\* C1: the report of check_missing_data lists a column exactly when the
\* column has a null cell, each value is the column's null percentage
\* 100*nulls/rows (to the precision of the float), lies in [0,100], and the
\* entries are in non-increasing order of percentage.
C1_MissingReport ==
  Ran("check_missing_data") =>
    LET o == Outcome("check_missing_data")
        items == Items("check_missing_data")
        rows == Len(TheDf.rows)
    IN /\ o.exc = ""
       /\ \A k \in DOMAIN TheDf.columns :
            LET col == TheDf.columns[k]
            IN Cardinality({i \in DOMAIN items : items[i].col = col})
                 = IF NullCount(TheDf, col) > 0 THEN 1 ELSE 0
       /\ \A i \in DOMAIN items :
            /\ HasColumn(TheDf, items[i].col)
            /\ ~items[i].pct.nan
            /\ items[i].pct.fp >= 0
            /\ items[i].pct.fp <= 100 * Scale
            /\ 2 * Abs(items[i].pct.fp * rows - 100 * Scale * NullCount(TheDf, items[i].col))
                 <= 100 * rows
       /\ \A i, j \in DOMAIN items : i < j => items[i].pct.fp >= items[j].pct.fp

\* C1 witness: both columns have nulls, the second more than the first, and
\* the report lists the second column first.
C1_Witness ==
  /\ Ran("check_missing_data")
  /\ Len(TheDf.rows) = 3
  /\ Len(Items("check_missing_data")) = 2
  /\ Items("check_missing_data")[1].col = "b"
  /\ Items("check_missing_data")[1].pct.fp > Items("check_missing_data")[2].pct.fp

\* C2: every percentage in the report of check_missing_data is rounded to
\* two decimals.
C2_RoundedToTwoDecimals ==
  Ran("check_missing_data") =>
    \A i \in DOMAIN Items("check_missing_data") :
      Items("check_missing_data")[i].pct.fp % (Scale \div 100) = 0

\* C3: check_duplicates returns len(D) minus the number of distinct rows of
\* D rows, none of them the first occurrence of its value-tuple, in
\* ascending original-index order.
C3_Duplicates ==
  Ran("check_duplicates") =>
    LET o == Outcome("check_duplicates")
        items == Items("check_duplicates")
        rows == TheDf.rows
    IN /\ o.exc = ""
       /\ Len(items) = Len(rows) - Cardinality({rows[i] : i \in DOMAIN rows})
       /\ \A i \in DOMAIN items :
            /\ items[i].index \in DOMAIN rows
            /\ items[i].row = rows[items[i].index]
            /\ \E j \in DOMAIN rows : j < items[i].index /\ rows[j] = items[i].row
       /\ \A i, j \in DOMAIN items : i < j => items[i].index < items[j].index

\* C3 witness: three rows, the third repeats the first and the second does
\* not; the report is the third row alone.
C3_Witness ==
  /\ Ran("check_duplicates")
  /\ Len(TheDf.rows) = 3
  /\ TheDf.rows[1] = TheDf.rows[3]
  /\ TheDf.rows[1] # TheDf.rows[2]
  /\ Len(Items("check_duplicates")) = 1
  /\ Items("check_duplicates")[1].index = 3

\* C4: with unique schema names, validate_data_types reports a column
\* exactly when a schema row names it, the dataset has it and the types
\* disagree: an expected "datetime" disagrees with every non-datetime dtype
\* and with no datetime dtype, any other expected tag disagrees exactly when
\* the strings differ; the entry records the expected and the actual tag.
C4_TypeMismatches ==
  (Ran("validate_data_types") /\ UniqueNames(TheSchema)) =>
    LET o == Outcome("validate_data_types")
        items == Items("validate_data_types")
        Disagrees(row) ==
          IF row.data_type = "datetime"
          THEN TheDf.dtype[row.column_name] \notin {"datetime64[ns]", "datetime64[ns, UTC]"}
          ELSE row.data_type # TheDf.dtype[row.column_name]
    IN /\ o.exc = ""
       /\ \A col \in {"a", "b", "z"} :
            Reports(items, col) <=>
              \E i \in DOMAIN TheSchema :
                /\ TheSchema[i].column_name = col
                /\ HasColumn(TheDf, col)
                /\ Disagrees(TheSchema[i])
       /\ \A k \in DOMAIN items :
            /\ \A l \in DOMAIN items : items[l].key = items[k].key => l = k
            /\ \E i \in DOMAIN TheSchema :
                 /\ TheSchema[i].column_name = items[k].key
                 /\ items[k].value.expected = TheSchema[i].data_type
                 /\ items[k].value.actual = TheDf.dtype[items[k].key]

\* C4 witness: expected "datetime" on a float64 column is reported with the
\* literal tag, next to a datetime-family column that is not reported.
C4_Witness ==
  /\ Ran("validate_data_types")
  /\ UniqueNames(TheSchema)
  /\ Len(TheSchema) = 2
  /\ TheSchema[1].data_type = "datetime"
  /\ TheSchema[2].data_type = "datetime"
  /\ TheDf.dtype["b"] = "datetime64[ns, UTC]"
  /\ Items("validate_data_types") =
       <<[key |-> "a", value |-> [expected |-> "datetime", actual |-> "float64"]]>>

NumericDtype(dtype) == dtype \in {"int64", "float64"}

\* C5: with unique schema names, for every schema row with both bounds and
\* a matching dataset column, validate_numeric_ranges counts the rows with
\* value < min plus the rows with value > max (nulls and values equal to a
\* bound not counted), reports the column with that count when it is
\* positive and omits the column when it is zero.
C5_RangeCounts ==
  (Ran("validate_numeric_ranges") /\ impl = "quality_checker" /\ UniqueNames(TheSchema)) =>
    LET o == Outcome("validate_numeric_ranges")
        rows == TheDf.rows
        Count(row) ==
          Cardinality({r \in DOMAIN rows :
                         notnull(rows[r][row.column_name])
                           /\ rows[r][row.column_name].n < row.min_value.n})
            + Cardinality({r \in DOMAIN rows :
                             notnull(rows[r][row.column_name])
                               /\ rows[r][row.column_name].n > row.max_value.n})
    IN /\ o.exc = ""
       /\ \A i \in DOMAIN TheSchema :
            LET row == TheSchema[i]
            IN (notnull(row.min_value) /\ notnull(row.max_value)
                  /\ HasColumn(TheDf, row.column_name)) =>
                 IF Count(row) > 0
                 THEN /\ Reports(Items("validate_numeric_ranges"), row.column_name)
                      /\ ValueOf(Items("validate_numeric_ranges"), row.column_name) = Count(row)
                 ELSE ~Reports(Items("validate_numeric_ranges"), row.column_name)

\* C6: with both source files available a run completes all four checks and
\* prints four reports without raising; a check whose report is empty prints
\* its confirmation message.
C6_FourReportsNeverRaising ==
  /\ pc # "raised"
  /\ pc = "exit" => (~argv_ok \/ dataset_file = None \/ schema_file = None)
  /\ pc = "done" =>
       \A c \in Checks :
         /\ Ran(c)
         /\ Outcome(c).exc = ""
         /\ Len(Outcome(c).lines) >= 1
         /\ Outcome(c).lines[1].warn <=> ~IsEmpty(Get(Outcome(c).ret))

\* C7: when the schema file (or the dataset file) is missing the run ends
\* with a fatal message and exit status 1, before the schema is coerced and
\* before any check runs or prints.
C7_NoCheckAfterFailedLoad ==
  /\ (dataset_file = None \/ schema_file = None) =>
       /\ \A c \in Checks : ~Ran(c) /\ calls[c] = 0
       /\ data_dict = None
       /\ pc \in {"main", "read_dataset", "load_data_dictionary", "exit"}
  /\ pc = "exit" =>
       /\ exit_code = Some(1)
       /\ Len(out) = 1
       /\ \A c \in Checks : ~Ran(c)
       /\ data_dict = None
  /\ (pc = "exit" /\ argv_ok /\ dataset_file # None) =>
       /\ schema_file = None
       /\ out = <<"Data dictionary file not found!">>

\* C7 witness: the dataset was read, the schema file is missing, the run
\* has exited with the fatal message.
C7_Witness ==
  /\ pc = "exit"
  /\ df # None
  /\ schema_file = None
  /\ exit_code = Some(1)
  /\ out = <<"Data dictionary file not found!">>

\* the schema without the rows that name a column absent from the dataset
RECURSIVE PresentRows(_, _)
PresentRows(d, schema) ==
  IF Len(schema) = 0 THEN <<>>
  ELSE IF HasColumn(d, Head(schema).column_name)
  THEN <<Head(schema)>> \o PresentRows(d, Tail(schema))
  ELSE PresentRows(d, Tail(schema))

\* C8: a schema row naming a column absent from the dataset is skipped:
\* every key of the type report and of the range report is a dataset
\* column, and both checks return, print and raise exactly what they do on
\* the schema without such rows.
C8_UnknownColumnSkipped ==
  /\ Ran("validate_data_types") =>
       /\ Outcome("validate_data_types")
            = ValidateDataTypes(impl, TheDf, PresentRows(TheDf, TheSchema))
       /\ Outcome("validate_data_types").exc = "" =>
            \A i \in DOMAIN Items("validate_data_types") :
              HasColumn(TheDf, Items("validate_data_types")[i].key)
  /\ Ran("validate_numeric_ranges") =>
       /\ Outcome("validate_numeric_ranges")
            = ValidateNumericRanges(impl, TheDf, PresentRows(TheDf, TheSchema))
       /\ Outcome("validate_numeric_ranges").exc = "" =>
            \A i \in DOMAIN Items("validate_numeric_ranges") :
              HasColumn(TheDf, Items("validate_numeric_ranges")[i].key)

\* C8 witness: the schema names the absent column z with both bounds and
\* the present column a; both checks ran and reported a alone.
C8_Witness ==
  /\ Ran("validate_data_types")
  /\ Ran("validate_numeric_ranges")
  /\ Len(TheSchema) = 2
  /\ TheSchema[1].column_name = "z"
  /\ TheSchema[2].column_name = "a"
  /\ Outcome("validate_numeric_ranges").exc = ""
  /\ Outcome("validate_data_types").exc = ""
  /\ Len(Items("validate_numeric_ranges")) = 1
  /\ Items("validate_numeric_ranges")[1].key = "a"
  /\ Len(Items("validate_data_types")) = 1
  /\ Items("validate_data_types")[1].key = "a"

\* C9: every invocation of a check leaves the dataset and the schema as
\* they were, and a repeated invocation has the outcome of the earlier one.
C9_Idempotent ==
  [][\A c \in Checks :
       calls'[c] > calls[c] =>
         /\ df' = df
         /\ data_dict' = data_dict
         /\ Ran(c) => result'[c] = result[c]]_vars

\* C9 witness: all four checks have run twice, on a dataset with a null and
\* a duplicate row.
C9_Witness ==
  /\ \A c \in Checks : calls[c] >= 2
  /\ Len(Items("check_duplicates")) >= 1
  /\ Len(Items("check_missing_data")) >= 1

\* C10: a schema row with a bound absent, or naming a column that is not
\* numeric, is not range-checked: no comparison is made on the column, the
\* column is not reported because of it, and the check does not raise.
C10_RangeCheckOnlyNumericWithBothBounds ==
  Ran("validate_numeric_ranges") =>
    /\ \A i \in DOMAIN TheSchema :
         LET row == TheSchema[i]
         IN (/\ HasColumn(TheDf, row.column_name)
             /\ \/ isnull(row.min_value)
                \/ isnull(row.max_value)
                \/ ~NumericDtype(TheDf.dtype[row.column_name])) =>
              ~RangeGuard(TheDf, row)
    /\ Outcome("validate_numeric_ranges").exc # "TypeError"
    /\ Outcome("validate_numeric_ranges").exc = "" =>
         \A k \in DOMAIN Items("validate_numeric_ranges") :
           LET col == Items("validate_numeric_ranges")[k].key
           IN /\ NumericDtype(TheDf.dtype[col])
              /\ \E i \in DOMAIN TheSchema :
                   /\ TheSchema[i].column_name = col
                   /\ notnull(TheSchema[i].min_value)
                   /\ notnull(TheSchema[i].max_value)

\* the rows of the schema that name column col, and the last of a set of rows
RowsNaming(col) == {i \in DOMAIN TheSchema : TheSchema[i].column_name = col}
Last(S) == CHOOSE i \in S : \A j \in S : j <= i

\* what validate_data_types records when schema row i is the whole schema
Alone(i) == TypesLoop(TheDf, <<TheSchema[i]>>, 1, <<>>)

\* C11 (as stated): when a column is named by more than one schema row, the
\* report's content for that column after validate_data_types is exactly
\* what the last row naming it would produce on its own.
C11_LastEntryWins ==
  Ran("validate_data_types") =>
    \A col \in {"a", "b", "z"} :
      Cardinality(RowsNaming(col)) > 1 =>
        LET items == Items("validate_data_types")
            alone == Alone(Last(RowsNaming(col)))
        IN /\ Reports(items, col) <=> Reports(alone, col)
           /\ Reports(items, col) => ValueOf(items, col) = ValueOf(alone, col)

\* C11 (amended): when a column is named by more than one schema row, the
\* report holds the column exactly when some row naming it records a
\* mismatch on its own, and its content is then what the last such row
\* records; a later row that matches the column removes nothing.
C11_LastMismatchWins ==
  Ran("validate_data_types") =>
    \A col \in {"a", "b", "z"} :
      Cardinality(RowsNaming(col)) > 1 =>
        LET items == Items("validate_data_types")
            writers == {i \in RowsNaming(col) : Len(Alone(i)) > 0}
        IN /\ Outcome("validate_data_types").exc = ""
           /\ Reports(items, col) <=> writers # {}
           /\ Cardinality({k \in DOMAIN items : items[k].key = col}) <= 1
           /\ writers # {} => ValueOf(items, col) = ValueOf(Alone(Last(writers)), col)

\* C11 witness: two rows name column a, both mismatch with different
\* expected tags, and the report holds the second row's record.
C11_Witness ==
  /\ Ran("validate_data_types")
  /\ Len(TheSchema) = 2
  /\ TheSchema[1].column_name = "a"
  /\ TheSchema[2].column_name = "a"
  /\ TheSchema[1].data_type = "datetime"
  /\ TheSchema[2].data_type = "object"
  /\ TheDf.dtype["a"] = "float64"
  /\ Items("validate_data_types") =
       <<[key |-> "a", value |-> [expected |-> "object", actual |-> "float64"]]>>

\* C12: a bound that fails numeric coercion is absent in the loaded schema,
\* on the loading path of either copy's main; a schema row whose bound
\* failed to parse is left out of range checking, and no row is compared
\* against a bound that is not a number.
C12_FailedBoundIsAbsent ==
  Ran("validate_numeric_ranges") =>
    \A i \in DOMAIN TheSchema :
      LET file == Get(schema_file)[i]
          row == TheSchema[i]
      IN /\ file.min_value \notin NumericText => isnull(row.min_value)
         /\ file.max_value \notin NumericText => isnull(row.max_value)
         /\ (file.min_value \notin NumericText \/ file.max_value \notin NumericText) =>
              ~RangeGuard(TheDf, row)
         /\ RangeGuard(TheDf, row) => (row.min_value.k = "num" /\ row.max_value.k = "num")

====
